---- MODULE Spec2Model ----
(***************************************************************************)
(* The BIP (Broadcast Incremental Power) tree builder of src/src/main.cpp. *)
(*                                                                         *)
(* Numbers.  Every coordinate of the program is a double.  The model       *)
(* stores a coordinate as an integer k that stands for the double          *)
(* k / grain, where grain is 1 (whole coordinates) or 2^14 (coordinates    *)
(* that are multiples of 2^-14 = 0.00006103515625).  Both kinds are        *)
(* exactly representable, and so are their differences, squares and sums   *)
(* for the small k used here, so the program's arithmetic on them is       *)
(* exact.  A power is stored as the integer p that stands for p / grain^2. *)
(* Vectors are sequences; row r of vector v, column c (0-based in the      *)
(* code) is v[r][c + 1].                                                   *)
(***************************************************************************)
EXTENDS Integers, Sequences, FiniteSets

VARIABLES
    grain,               \* the unit of the stored integers: value = k / grain
    locations,           \* main.cpp:36   rows <<x, y>>, file order
    uncovered,           \* main.cpp:37   rows <<x, y>>
    transmitting,        \* main.cpp:39   rows <<x, y, power>>
    nontransmitting,     \* main.cpp:41   rows <<x, y>>
    transmissionPath,    \* main.cpp:43   rows <<x, y, power increment>>
    selected,            \* history of minPowersForAllNodes[indexMin], one row per round
    round,               \* main.cpp:74
    totalBroadcastCost,  \* main.cpp:195
    pc                   \* "loop": at the while test of line 77; "done": after line 211

vars == <<grain, locations, uncovered, transmitting, nontransmitting,
          transmissionPath, selected, round, totalBroadcastCost, pc>>

----------------------------------------------------------------------------
(* Bounds of the inputs: at most MaxN nodes, on the grid 0..MaxX by        *)
(* 0..MaxY of either grain.                                               *)

MaxN == 4

MaxX == 2

MaxY == 1

(* epsilon of doubleEquals is 1 / EpsilonInv = 0.0001. *)
EpsilonInv == 10000

(* The finer unit: one step of 2^-14 is less than epsilon, two steps are  *)
(* more, so neighbouring grid points match under doubleEquals and points  *)
(* two steps apart do not.                                                 *)
FineGrain == 2^14

Grains == {1, FineGrain}

Points == {<<x, y>> : x \in 0..MaxX, y \in 0..MaxY}

(* The documented two-node and three-node inputs of the specification. *)
Examples == { << <<0, 0>>, <<3, 4>> >>, << <<0, 0>>, <<1, 0>>, <<2, 0>> >> }

----------------------------------------------------------------------------
(* Helpers of the program. *)

Abs(v) == IF v < 0 THEN -v ELSE v

(* std::abs(x1 - x2) < epsilon, on the doubles x1 / grain and x2 / grain. *)
doubleEquals(x1, x2) == Abs(x1 - x2) * EpsilonInv < grain

Pow2(v) == v * v

(* pow(x1 - x2, 2) + pow(y1 - y2, 2) *)
PowerToReachUncoveredNode(x1, y1, x2, y2) == Pow2(x1 - x2) + Pow2(y1 - y2)

(* additionalPower with the operands of the subtraction swapped. *)
AdditionalPowerNegated(powerToReach, currentPower) == currentPower - powerToReach

(* Line 110. *)
AdditionalPower(powerToReach, currentPower) == powerToReach - currentPower

(* vector::erase(begin() + i) with the model's 1-based i. *)
RemoveAt(s, i) == [k \in 1..(Len(s) - 1) |-> IF k < i THEN s[k] ELSE s[k + 1]]

(* Lines 99-114: one row <<additionalPower, x1, y1, x2, y2>> for every      *)
(* transmitting node (outer loop) and every uncovered node (inner loop).   *)
TransmittingCandidates(tr, unc) ==
    [k \in 1..(Len(tr) * Len(unc)) |->
        LET i == ((k - 1) \div Len(unc)) + 1
            j == ((k - 1) % Len(unc)) + 1
        IN  << AdditionalPower(
                   PowerToReachUncoveredNode(tr[i][1], tr[i][2], unc[j][1], unc[j][2]),
                   tr[i][3]),
               tr[i][1], tr[i][2], unc[j][1], unc[j][2] >>]

(* Lines 118-127: one row <<powerToReach, x1, y1, x2, y2>> for every        *)
(* non-transmitting covered node and every uncovered node.                 *)
RelayCandidates(nt, unc) ==
    [k \in 1..(Len(nt) * Len(unc)) |->
        LET i == ((k - 1) \div Len(unc)) + 1
            j == ((k - 1) % Len(unc)) + 1
        IN  << PowerToReachUncoveredNode(nt[i][1], nt[i][2], unc[j][1], unc[j][2]),
               nt[i][1], nt[i][2], unc[j][1], unc[j][2] >>]

MinPowersForAllNodes(tr, nt, unc) ==
    TransmittingCandidates(tr, unc) \o RelayCandidates(nt, unc)

(* Lines 131-134: the first column of every row. *)
Temp(rows) == [k \in 1..Len(rows) |-> rows[k][1]]

(* std::min_element: a forward scan that keeps the first smallest element. *)
RECURSIVE MinElementScan(_, _, _)
MinElementScan(temp, i, best) ==
    IF i > Len(temp) THEN best
    ELSE MinElementScan(temp, i + 1, IF temp[i] < temp[best] THEN i ELSE best)

(* A scan that keeps the last smallest element (<= in place of <). *)
RECURSIVE LastMinElementScan(_, _, _)
LastMinElementScan(temp, i, best) ==
    IF i > Len(temp) THEN best
    ELSE LastMinElementScan(temp, i + 1, IF temp[i] <= temp[best] THEN i ELSE best)

(* std::max_element: a scan that keeps the first largest element. *)
RECURSIVE MaxElementScan(_, _, _)
MaxElementScan(temp, i, best) ==
    IF i > Len(temp) THEN best
    ELSE MaxElementScan(temp, i + 1, IF temp[best] < temp[i] THEN i ELSE best)

(* indexMin taken as the last smallest element. *)
IndexMinLast(temp) == LastMinElementScan(temp, 2, 1)

(* indexMin taken with max_element in place of min_element. *)
IndexMinAsMax(temp) == MaxElementScan(temp, 2, 1)

(* Lines 135-136, 1-based. *)
IndexMin(temp) == MinElementScan(temp, 2, 1)

(* Lines 147-148, 156-157, 170-171: both coordinates match within epsilon. *)
Matches(node, x, y) == doubleEquals(node[1], x) /\ doubleEquals(node[2], y)

(* Line 149 with = in place of +=. *)
IncreasePowerAssign(node, cost) == <<node[1], node[2], cost>>

(* Line 149: transmitting[i][2] += minPowersForAllNodes[indexMin][0] *)
IncreasePower(node, cost) == <<node[1], node[2], node[3] + cost>>

(* Lines 146-151: every matching transmitting row gets the increment. *)
UpdateTransmitting(tr, row) ==
    [i \in 1..Len(tr) |->
        IF Matches(tr[i], row[2], row[3]) THEN IncreasePower(tr[i], row[1]) ELSE tr[i]]

(* Lines 155-162: the loop over nontransmitting.  A matching row is erased  *)
(* and a row <<x1, y1, cost>> of the winner is pushed onto transmitting;    *)
(* the index is advanced after the erase as well.  Result: <<nt, tr>>.      *)
RECURSIVE PromoteRelays(_, _, _, _)
PromoteRelays(nt, tr, i, row) ==
    IF i > Len(nt) THEN <<nt, tr>>
    ELSE IF Matches(nt[i], row[2], row[3])
         THEN PromoteRelays(RemoveAt(nt, i), Append(tr, <<row[2], row[3], row[1]>>),
                            i + 1, row)
         ELSE PromoteRelays(nt, tr, i + 1, row)

(* Lines 169-173: the loop over uncovered; a matching row is erased and the *)
(* index is advanced after the erase as well.                               *)
RECURSIVE EraseCovered(_, _, _)
EraseCovered(unc, i, row) ==
    IF i > Len(unc) THEN unc
    ELSE IF Matches(unc[i], row[4], row[5])
         THEN EraseCovered(RemoveAt(unc, i), i + 1, row)
         ELSE EraseCovered(unc, i + 1, row)

(* Lines 195-201. *)
RECURSIVE SumPowers(_, _)
SumPowers(tr, i) == IF i > Len(tr) THEN 0 ELSE tr[i][3] + SumPowers(tr, i + 1)

----------------------------------------------------------------------------
(* The program. *)

(* Lines 33-74: the state at the first test of the while loop, for an input *)
(* file of n >= 1 nodes.                                                    *)
Seeded(g, locs) ==
    /\ grain = g
    /\ locations = locs
    /\ transmitting = << <<locs[1][1], locs[1][2], 0>> >>
    /\ uncovered = [i \in 1..(Len(locs) - 1) |-> locs[i + 1]]
    /\ nontransmitting = << >>
    /\ transmissionPath = << >>
    /\ selected = << >>
    /\ round = 0
    /\ totalBroadcastCost = 0
    /\ pc = "loop"

Init ==
    \/ \E g \in Grains : \E n \in 1..MaxN : \E locs \in [1..n -> Points] : Seeded(g, locs)
    \/ \E locs \in Examples : Seeded(1, locs)

(* Lines 86-136: the candidate rows of a round and the row at indexMin. *)
WinningRow(tr, nt, unc) ==
    LET minPowersForAllNodes == MinPowersForAllNodes(tr, nt, unc)
    IN  minPowersForAllNodes[IndexMin(Temp(minPowersForAllNodes))]

(* Lines 77-190: one iteration of the while loop.  row is the value of     *)
(* minPowersForAllNodes[indexMin]; promoted is <<nontransmitting,           *)
(* transmitting>> after the loops of lines 146-162.                         *)
Round ==
    /\ pc = "loop"
    /\ Len(uncovered) > 0
    /\ \E row \in {WinningRow(transmitting, nontransmitting, uncovered)} :
       \E promoted \in {PromoteRelays(nontransmitting,
                                      UpdateTransmitting(transmitting, row), 1, row)} :
           /\ round' = round + 1
           /\ transmissionPath' = Append(transmissionPath, <<row[2], row[3], row[1]>>)
           /\ selected' = Append(selected, row)
           /\ transmitting' = promoted[2]
           /\ nontransmitting' = Append(promoted[1], <<row[4], row[5]>>)
           /\ uncovered' = EraseCovered(uncovered, 1, row)
    /\ UNCHANGED <<grain, locations, totalBroadcastCost, pc>>

(* Lines 77 (loop exit) and 192-213: the final report. *)
Report ==
    /\ pc = "loop"
    /\ Len(uncovered) = 0
    /\ totalBroadcastCost' = SumPowers(transmitting, 1)
    /\ pc' = "done"
    /\ UNCHANGED <<grain, locations, uncovered, transmitting, nontransmitting,
                   transmissionPath, selected, round>>

Next == Round \/ Report

Spec == Init /\ [][Next]_vars

----------------------------------------------------------------------------
(* Vocabulary of the properties. *)

N == Len(locations)

Last(s) == s[Len(s)]

SqDist(a, b) == PowerToReachUncoveredNode(a[1], a[2], b[1], b[2])

SameCoordinates(a, b) == a[1] = b[1] /\ a[2] = b[2]

(* How many rows of a vector carry exactly the coordinates of p. *)
Count(s, p) == Cardinality({i \in 1..Len(s) : SameCoordinates(s[i], p)})

(* No two input nodes carry the same coordinates. *)
Distinct(locs) ==
    \A i, j \in 1..Len(locs) : i # j => ~SameCoordinates(locs[i], locs[j])

(* No two input nodes match within the tolerance on both axes. *)
Separated(locs) ==
    \A i, j \in 1..Len(locs) : i # j => ~Matches(locs[i], locs[j][1], locs[j][2])

RECURSIVE SumIncrements(_, _)
SumIncrements(path, i) ==
    IF i > Len(path) THEN 0 ELSE path[i][3] + SumIncrements(path, i + 1)

SetMax(S) == CHOOSE m \in S : \A v \in S : v <= m

(* A round has just been taken. *)
RoundTaken == round' = round + 1

----------------------------------------------------------------------------
(* C1: for an input of N >= 1 nodes exactly one node leaves uncovered in   *)
(* each round, the path log holds one entry per round, and at termination  *)
(* N - 1 rounds have run and the log holds N - 1 entries.  Stated for the  *)
(* inputs whose nodes have pairwise distinct coordinates, where the N      *)
(* nodes are beyond dispute N different nodes.                             *)
C1_RoundCount ==
    Distinct(locations) =>
        /\ Len(transmissionPath) = round
        /\ Len(uncovered) = N - 1 - round
        /\ pc = "done" => (round = N - 1 /\ Len(transmissionPath) = N - 1)

(* C2: transmitting, nontransmitting and uncovered together hold every     *)
(* input node exactly once (as many rows per coordinate pair as the input  *)
(* has), and after the loop uncovered is empty.  Stated for the inputs     *)
(* whose nodes have pairwise distinct coordinates.                         *)
C2_Partition ==
  Distinct(locations) =>
    /\ \A p \in Points \cup {locations[k] : k \in 1..N}
               \cup {<<transmitting[i][1], transmitting[i][2]>> :
                        i \in 1..Len(transmitting)} :
           Count(transmitting, p) + Count(nontransmitting, p) + Count(uncovered, p)
               = Count(locations, p)
    /\ pc = "done" => uncovered = << >>

(* C3: after the loop every input node other than the source is within the *)
(* power of some transmitting node, and after every round the target of    *)
(* every winning candidate so far is within the current power of a         *)
(* transmitting row at that candidate's originator.  Stated for the inputs *)
(* whose nodes have pairwise distinct coordinates.                         *)
C3_Coverage ==
  Distinct(locations) =>
    /\ pc = "done" =>
           \A k \in 2..N : \E i \in 1..Len(transmitting) :
               SqDist(transmitting[i], locations[k]) <= transmitting[i][3]
    /\ \A r \in 1..Len(selected) : \E i \in 1..Len(transmitting) :
           /\ SameCoordinates(transmitting[i], <<selected[r][2], selected[r][3]>>)
           /\ SqDist(<<selected[r][2], selected[r][3]>>,
                     <<selected[r][4], selected[r][5]>>) <= transmitting[i][3]

TCost(i, j) == SqDist(transmitting[i], uncovered[j]) - transmitting[i][3]

RCost(i, j) == SqDist(nontransmitting[i], uncovered[j])

(* C5: the candidate a round applies (originator and increment in the new  *)
(* path entry, target in the new nontransmitting row) has the least cost   *)
(* of both pools, and every candidate enumerated before it (transmitting   *)
(* pool first; originators, then uncovered nodes, in vector order) costs   *)
(* strictly more.                                                          *)
C5_MinimumFirst ==
    [][RoundTaken =>
        LET e  == Last(transmissionPath')
            t  == Last(nontransmitting')
            c  == e[3]
            nT == Len(transmitting)
            nR == Len(nontransmitting)
            nU == Len(uncovered)
        IN  \/ \E i \in 1..nT : \E j \in 1..nU :
                   /\ SameCoordinates(transmitting[i], e)
                   /\ uncovered[j] = t
                   /\ TCost(i, j) = c
                   /\ \A i2 \in 1..nT : \A j2 \in 1..nU :
                          /\ TCost(i2, j2) >= c
                          /\ (i2 < i \/ (i2 = i /\ j2 < j)) => TCost(i2, j2) > c
                   /\ \A i2 \in 1..nR : \A j2 \in 1..nU : RCost(i2, j2) >= c
            \/ \E i \in 1..nR : \E j \in 1..nU :
                   /\ SameCoordinates(nontransmitting[i], e)
                   /\ uncovered[j] = t
                   /\ RCost(i, j) = c
                   /\ \A i2 \in 1..nT : \A j2 \in 1..nU : TCost(i2, j2) > c
                   /\ \A i2 \in 1..nR : \A j2 \in 1..nU :
                          /\ RCost(i2, j2) >= c
                          /\ (i2 < i \/ (i2 = i /\ j2 < j)) => RCost(i2, j2) > c
      ]_vars

(* A round has ended whose winner tied with a later candidate: another     *)
(* uncovered node lies exactly on the new radius of the originator.        *)
C5_Witness ==
    /\ round >= 1
    /\ pc = "loop"
    /\ Separated(locations)
    /\ \E i \in 1..Len(transmitting) : \E j \in 1..Len(uncovered) :
           /\ SameCoordinates(transmitting[i], Last(transmissionPath))
           /\ Last(transmissionPath)[3] > 0
           /\ uncovered[j] # Last(nontransmitting)
           /\ SqDist(transmitting[i], uncovered[j]) = transmitting[i][3]

(* The input nodes have pairwise distinct coordinates, and some two of     *)
(* them match within the tolerance on both axes.                           *)
HasNearPair == Distinct(locations) /\ ~Separated(locations)

(* C6: when two different input nodes are within the tolerance of each     *)
(* other, a round still changes only the one originator (its power is      *)
(* raised, or it alone moves from nontransmitting to transmitting) and     *)
(* removes only the one newly covered node from uncovered.                 *)
C6_NoMerge ==
    [][(RoundTaken /\ HasNearPair) =>
        LET e == Last(transmissionPath')
            t == Last(nontransmitting')
        IN  /\ \E j \in 1..Len(uncovered) :
                   /\ uncovered[j] = t
                   /\ uncovered' = RemoveAt(uncovered, j)
            /\ \/ \E i \in 1..Len(transmitting) :
                      /\ SameCoordinates(transmitting[i], e)
                      /\ transmitting' =
                             [transmitting EXCEPT ![i] = <<@[1], @[2], @[3] + e[3]>>]
                      /\ nontransmitting' = Append(nontransmitting, t)
               \/ \E i \in 1..Len(nontransmitting) :
                      /\ SameCoordinates(nontransmitting[i], e)
                      /\ transmitting' = Append(transmitting, e)
                      /\ nontransmitting' = Append(RemoveAt(nontransmitting, i), t)
      ]_vars

(* C7: the power of every transmitting row whose coordinates originated a  *)
(* winning candidate equals the largest squared distance from it to the    *)
(* targets of those candidates; the input (0,0), (3,4) ends with the       *)
(* source at power 25 and a total cost of 25.  Stated for the inputs whose *)
(* nodes have pairwise distinct coordinates.                               *)
C7_PowerIsFarthest ==
  Distinct(locations) =>
    /\ \A i \in 1..Len(transmitting) :
           LET mine == {r \in 1..Len(selected) :
                           SameCoordinates(transmitting[i],
                                           <<selected[r][2], selected[r][3]>>)}
           IN  mine # {} =>
                   transmitting[i][3] =
                       SetMax({SqDist(transmitting[i],
                                      <<selected[r][4], selected[r][5]>>) : r \in mine})
    /\ (grain = 1 /\ locations = << <<0, 0>>, <<3, 4>> >> /\ pc = "done") =>
           (transmitting = << <<0, 0, 25>> >> /\ totalBroadcastCost = 25)

C9_NonNegativeCost ==
    Distinct(locations) =>
        /\ \A i \in 1..Len(transmitting) : \A j \in 1..Len(uncovered) :
               transmitting[i][3] <= SqDist(transmitting[i], uncovered[j])
        /\ LET rows == MinPowersForAllNodes(transmitting, nontransmitting, uncovered)
           IN  \A k \in 1..Len(rows) : rows[k][1] >= 0
        /\ \A r \in 1..Len(transmissionPath) : transmissionPath[r][3] >= 0

(* A round starts, on an input of distinct coordinates, with two           *)
(* transmitting nodes of positive power and a relay to choose from.        *)
C9_Witness ==
    /\ Distinct(locations)
    /\ pc = "loop"
    /\ round >= 2
    /\ Len(uncovered) > 0
    /\ Len(nontransmitting) > 0
    /\ \E i, k \in 1..Len(transmitting) :
           i # k /\ transmitting[i][3] > 0 /\ transmitting[k][3] > 0

(* C10: for inputs with pairwise distinct coordinates, the powers of the   *)
(* transmitting rows add up to the increments of the path log after every  *)
(* round, and so does the reported total cost.                             *)
C10_CostEqualsPathSum ==
    Distinct(locations) =>
        /\ SumPowers(transmitting, 1) = SumIncrements(transmissionPath, 1)
        /\ pc = "done" => totalBroadcastCost = SumIncrements(transmissionPath, 1)

====
